---- MODULE Spec2Model ----
(***************************************************************************)
(* Model of the region detection pipeline of pdf-to-html-converter         *)
(* (src/src/image_region_detector.py, class ImageRegionDetector).          *)
(*                                                                         *)
(* Numbers.  cv2.contourArea of a contour with integer vertices is a       *)
(* multiple of 0.5, so a contour carries area2 = 2 * contourArea.  Float   *)
(* ratios (overlap_ratio, edge_density, aspect_ratio) and the float        *)
(* thresholds 0.3, 0.15, 3.0 and 0.8 are rationals <<num, den>> compared   *)
(* by cross multiplication.  This agrees with IEEE double arithmetic for   *)
(* the sizes a page can have: a correctly rounded quotient that equals the *)
(* threshold mathematically rounds to the threshold's literal, and a       *)
(* quotient that differs from it does so by at least 1/(10 * w * h).       *)
(***************************************************************************)
EXTENDS Integers, Sequences, FiniteSets, TLC

VARIABLES
    detection_params,       \* self.detection_params
    region_classification,  \* self.region_classification
    pc,                     \* position of the caller in the page pipeline
    image_path,             \* the page image the path names
    ocr_result,             \* the recognizer's output for the page
    pdf_name,
    page_num,
    text_regions,           \* value returned by detect_text_regions_from_ocr
    image_regions,          \* value returned by find_image_regions
    extracted_paths,        \* list built by extract_image_regions
    files,                  \* the file system below project_root: path -> content
    result,                 \* value returned by process_page_with_ocr
    region_info,            \* argument of a direct _classify_region_type call
    region_type,            \* value returned by that call
    memo,                   \* an earlier find_image_regions call: its input and output
    runs,                   \* pages handed to this detector instance so far
    exception,              \* the exception that left the pipeline, if one did
    trace,                  \* the stages find_image_regions ran, contour by contour
    other,                  \* the locals of a second, suspended page worker
    conv,                   \* the locals of convert_pdf_to_html
    html,                   \* a call of the HTML generator: its input and output
    parse,                  \* a call of parse_page_range: its argument and value
    batch                   \* the locals of batch_convert

vars == <<detection_params, region_classification, pc, image_path, ocr_result,
          pdf_name, page_num, text_regions, image_regions, extracted_paths,
          files, result, region_info, region_type, memo, runs, exception,
          trace, other, conv, html, parse, batch>>

\* the attributes of the detector instance
self_vars == <<detection_params, region_classification>>

\* the callers' side of the program: HTML generator, command line, batch
app_vars == <<html, parse, batch>>

\* the direct classifier call, the observer, the second worker, the converter
side_vars == <<region_info, region_type, memo, other, conv, app_vars>>

(***************************************************************************)
(* Bounds                                                                  *)
(***************************************************************************)
MaxContours == 2    \* contours on a page
MaxText == 2        \* recognizer records on a page
MaxRuns == 3        \* pages one detector instance processes in SpecSeq
MaxPages == 2       \* pages of a document given to convert_pdf_to_html
MaxChars == 3       \* characters of a --pages argument
MaxFiles == 3       \* PDF files of a directory given to batch_convert
MaxPageNum == 3     \* highest page number in a text directory

(***************************************************************************)
(* Arithmetic helpers                                                      *)
(***************************************************************************)
Max(a, b) == IF a >= b THEN a ELSE b

Min(a, b) == IF a <= b THEN a ELSE b

\* p > q for rationals p = <<n, d>>, q = <<m, e>> with d, e > 0
RatioGT(p, q) == p[1] * q[2] > q[1] * p[2]

RatioGE(p, q) == p[1] * q[2] >= q[1] * p[2]

NoValue == [none |-> TRUE]

RegionTypes == {"diagram", "large_image", "small_image", "block_image", "graphic_element"}

(***************************************************************************)
(* detect_text_regions_from_ocr                                            *)
(***************************************************************************)
RECURSIVE DetectTextLoopGE(_, _)
DetectTextLoopGE(elements, acc) ==
    IF elements = <<>> THEN acc
    ELSE LET element == Head(elements)
         IN DetectTextLoopGE(Tail(elements),
               IF element.confidence >= 30
               THEN Append(acc, <<element.x, element.y, element.width, element.height>>)
               ELSE acc)

RECURSIVE DetectTextLoop(_, _)
DetectTextLoop(elements, acc) ==
    IF elements = <<>> THEN acc
    ELSE LET element == Head(elements)
         IN DetectTextLoop(Tail(elements),
               IF element.confidence > 30
               THEN Append(acc, <<element.x, element.y, element.width, element.height>>)
               ELSE acc)

detect_text_regions_from_ocr(ocr) ==
    IF ocr.has_text_elements THEN DetectTextLoop(ocr.text_elements, <<>>) ELSE <<>>

(***************************************************************************)
(* _is_overlapping_with_text                                               *)
(***************************************************************************)
overlap_threshold == <<3, 10>>

\* one iteration of the loop over text_regions: does box t make the loop return True
OverlapExceedsGE(x, y, w, h, t) ==
    LET region_area == w * h
        overlap_x1 == Max(x, t[1])
        overlap_y1 == Max(y, t[2])
        overlap_x2 == Min(x + w, t[1] + t[3])
        overlap_y2 == Min(y + h, t[2] + t[4])
        overlap_area == (overlap_x2 - overlap_x1) * (overlap_y2 - overlap_y1)
    IN  /\ overlap_x2 > overlap_x1
        /\ overlap_y2 > overlap_y1
        /\ RatioGE(<<overlap_area, region_area>>, overlap_threshold)

OverlapExceeds(x, y, w, h, t) ==
    LET region_area == w * h
        overlap_x1 == Max(x, t[1])
        overlap_y1 == Max(y, t[2])
        overlap_x2 == Min(x + w, t[1] + t[3])
        overlap_y2 == Min(y + h, t[2] + t[4])
        overlap_area == (overlap_x2 - overlap_x1) * (overlap_y2 - overlap_y1)
    IN  /\ overlap_x2 > overlap_x1
        /\ overlap_y2 > overlap_y1
        /\ RatioGT(<<overlap_area, region_area>>, overlap_threshold)

RECURSIVE OverlapLoop(_, _, _, _, _, _)
OverlapLoop(x, y, w, h, boxes, k) ==
    IF k > Len(boxes) THEN FALSE
    ELSE IF OverlapExceeds(x, y, w, h, boxes[k]) THEN TRUE
    ELSE OverlapLoop(x, y, w, h, boxes, k + 1)

\* a loop that returns after looking at the first text box only
is_overlapping_first_box_only(x, y, w, h, boxes) ==
    IF boxes = <<>> THEN FALSE ELSE OverlapExceeds(x, y, w, h, boxes[1])

is_overlapping_with_text(x, y, w, h, boxes) == OverlapLoop(x, y, w, h, boxes, 1)

(***************************************************************************)
(* _analyze_region_features: the fields the pipeline reads afterwards.     *)
(* perimeter, extent, mean/std intensity, solidity and roi_shape are       *)
(* computed and stored but never read by the detector.                     *)
(***************************************************************************)
analyze_region_features(original, contour, x, y, w, h, region_id) ==
    [id           |-> region_id,
     x            |-> x,
     y            |-> y,
     width        |-> w,
     height       |-> h,
     area         |-> contour.area2 \div 2,
     aspect_ratio |-> IF h > 0 THEN <<w, h>> ELSE <<0, 1>>,
     edge_density |-> IF w > 0 /\ h > 0 THEN <<contour.edges, w * h>> ELSE <<0, 1>>]

(***************************************************************************)
(* _classify_region_type                                                   *)
(***************************************************************************)
classify_region_type_ge(info) ==
    IF RatioGT(info.edge_density, region_classification.edge_density_threshold)
    THEN IF RatioGT(info.aspect_ratio, region_classification.aspect_ratio_threshold)
         THEN "diagram"
         ELSE IF info.area >= region_classification.size_threshold
              THEN "large_image"
              ELSE "small_image"
    ELSE IF info.area >= region_classification.size_threshold
         THEN "block_image"
         ELSE "graphic_element"

classify_region_type_unknown(info) ==
    IF RatioGT(info.edge_density, region_classification.edge_density_threshold)
    THEN IF RatioGT(info.aspect_ratio, region_classification.aspect_ratio_threshold)
         THEN "diagram"
         ELSE IF info.area > region_classification.size_threshold
              THEN "large_image"
              ELSE "small_image"
    ELSE IF info.area > region_classification.size_threshold
         THEN "block_image"
         ELSE "unknown"

classify_region_type(info) ==
    IF RatioGT(info.edge_density, region_classification.edge_density_threshold)
    THEN IF RatioGT(info.aspect_ratio, region_classification.aspect_ratio_threshold)
         THEN "diagram"
         ELSE IF info.area > region_classification.size_threshold
              THEN "large_image"
              ELSE "small_image"
    ELSE IF info.area > region_classification.size_threshold
         THEN "block_image"
         ELSE "graphic_element"

(***************************************************************************)
(* find_image_regions                                                      *)
(***************************************************************************)
\* the two area tests of the contour loop; total_area = height * width
PassesAreaFilterNoMax(area2, total_area) ==
    ~ (area2 < 2 * detection_params.min_area)

PassesAreaFilter(area2, total_area) ==
    /\ ~ (area2 < 2 * detection_params.min_area)
    /\ ~ (area2 * detection_params.max_area_ratio[2]
            > 2 * total_area * detection_params.max_area_ratio[1])

\* equal areas: the new record goes in front of the earlier ones, as when the
\* list is sorted ascending and then reversed
RECURSIVE InsertDescUnstable(_, _)
InsertDescUnstable(sorted, r) ==
    IF sorted = <<>> THEN <<r>>
    ELSE IF Head(sorted).area > r.area
         THEN <<Head(sorted)>> \o InsertDescUnstable(Tail(sorted), r)
         ELSE <<r>> \o sorted

\* reverse=True forgotten
RECURSIVE InsertAsc(_, _)
InsertAsc(sorted, r) ==
    IF sorted = <<>> THEN <<r>>
    ELSE IF Head(sorted).area <= r.area
         THEN <<Head(sorted)>> \o InsertAsc(Tail(sorted), r)
         ELSE <<r>> \o sorted

\* list.sort(key=area, reverse=True) is stable and descending: a record goes
\* behind every record whose area is at least its own.
RECURSIVE InsertDesc(_, _)
InsertDesc(sorted, r) ==
    IF sorted = <<>> THEN <<r>>
    ELSE IF Head(sorted).area >= r.area
         THEN <<Head(sorted)>> \o InsertDesc(Tail(sorted), r)
         ELSE <<r>> \o sorted

RECURSIVE SortLoop(_, _)
SortLoop(regions, acc) ==
    IF regions = <<>> THEN acc
    ELSE SortLoop(Tail(regions), InsertDesc(acc, Head(regions)))

sort_by_area_desc(regions) == SortLoop(regions, <<>>)

\* the loop `for i, contour in enumerate(contours)`; i is the 0-based index.
\* The first original.noise contours of a page are glyph-sized: the loop skips
\* each of them at the min_area test, so it is entered at i = original.noise.
RECURSIVE ContourLoop(_, _, _, _)
ContourLoop(original, boxes, i, acc) ==
    IF i >= original.noise + Len(original.contours) THEN acc
    ELSE LET contour == original.contours[i - original.noise + 1]
             total_area == original.height * original.width
             x == contour.x
             y == contour.y
             w == contour.w
             h == contour.h
         IN IF ~ PassesAreaFilter(contour.area2, total_area)
            THEN ContourLoop(original, boxes, i + 1, acc)
            ELSE IF is_overlapping_with_text(x, y, w, h, boxes)
            THEN ContourLoop(original, boxes, i + 1, acc)
            ELSE LET info == analyze_region_features(original, contour, x, y, w, h, i)
                     typed == [f \in DOMAIN info \cup {"type"} |->
                                 IF f = "type" THEN classify_region_type(info) ELSE info[f]]
                 IN ContourLoop(original, boxes, i + 1, Append(acc, typed))

\* the value find_image_regions returns for a readable page
find_image_regions(original, boxes) ==
    sort_by_area_desc(ContourLoop(original, boxes, original.noise, <<>>))

\* the statements the loop body runs for the contour at index i, in order
StageEventsEager(original, boxes, i) ==
    LET contour == original.contours[i - original.noise + 1]
        total_area == original.height * original.width
    IN <<<<i, "features">>, <<i, "area_filter">>>>
          \o (IF PassesAreaFilter(contour.area2, total_area)
              THEN <<<<i, "text_filter">>>>
                     \o (IF is_overlapping_with_text(contour.x, contour.y, contour.w,
                                                     contour.h, boxes)
                         THEN <<>> ELSE <<<<i, "classify">>>>)
              ELSE <<>>)

StageEvents(original, boxes, i) ==
    LET contour == original.contours[i - original.noise + 1]
        total_area == original.height * original.width
    IN <<<<i, "area_filter">>>>
          \o (IF PassesAreaFilter(contour.area2, total_area)
              THEN <<<<i, "text_filter">>>>
                     \o (IF is_overlapping_with_text(contour.x, contour.y, contour.w,
                                                     contour.h, boxes)
                         THEN <<>> ELSE <<<<i, "features">>, <<i, "classify">>>>)
              ELSE <<>>)

RECURSIVE StageTrace(_, _, _)
StageTrace(original, boxes, i) ==
    IF i >= original.noise + Len(original.contours) THEN <<>>
    ELSE StageEvents(original, boxes, i) \o StageTrace(original, boxes, i + 1)

(***************************************************************************)
(* extract_image_regions and save_region_detection_result: names and data  *)
(***************************************************************************)
RECURSIVE Digits(_)
Digits(n) == IF n < 10 THEN <<n>> ELSE Digits(n \div 10) \o <<n % 10>>

\* the number a sequence of decimal digits writes
RECURSIVE DigitsValue(_)
DigitsValue(d) ==
    IF d = <<>> THEN 0
    ELSE 10 * DigitsValue(SubSeq(d, 1, Len(d) - 1)) + d[Len(d)]

\* the format spec :02d
ZeroPad2(n) ==
    LET d == Digits(n)
    IN IF Len(d) >= 2 THEN d ELSE [i \in 1..(2 - Len(d)) |-> 0] \o d

\* the format spec :03d
ZeroPad3(n) ==
    LET d == Digits(n)
    IN IF Len(d) >= 3 THEN d ELSE [i \in 1..(3 - Len(d)) |-> 0] \o d

\* f"region_{region['type']}.png": the id left out of the name
RegionPathByType(pdf, page, region) ==
    [dir  |-> <<"output", "images", pdf, "regions", "page", ZeroPad3(page)>>,
     name |-> <<"region", region.type, "png">>]

\* one regions directory for all the pages of a document
RegionPathFlat(pdf, page, region) ==
    [dir  |-> <<"output", "images", pdf, "regions">>,
     name |-> <<"region", ZeroPad3(region.id), region.type, "png">>]

\* regions_dir / f"region_{region['id']:03d}_{region['type']}.png"
RegionPath(pdf, page, region) ==
    [dir  |-> <<"output", "images", pdf, "regions", "page", ZeroPad3(page)>>,
     name |-> <<"region", ZeroPad3(region.id), region.type, "png">>]

\* output_dir / f"page_{page_num:03d}_regions.json"
RegionsJsonPath(pdf, page) ==
    [dir  |-> <<"output", "text", pdf>>,
     name |-> <<"page", ZeroPad3(page), "regions", "json">>]

\* output/images/<pdf>/visualizations/page_NNN_regions_viz.png
VisualizationPath(pdf, page) ==
    [dir  |-> <<"output", "images", pdf, "visualizations">>,
     name |-> <<"page", ZeroPad3(page), "regions", "viz", "png">>]

\* original[y:y+h, x:x+w]: the slice stops at the edge of the page
Crop(original, region) ==
    [x |-> region.x, y |-> region.y,
     width  |-> Max(0, Min(region.x + region.width, original.width) - region.x),
     height |-> Max(0, Min(region.y + region.height, original.height) - region.y)]

\* the slice has no pixel; cv2.imwrite raises on an empty image
RoiEmpty(original, region) ==
    \/ Crop(original, region).width = 0
    \/ Crop(original, region).height = 0

WriteFile(fs, path, data) ==
    [p \in DOMAIN fs \cup {path} |-> IF p = path THEN data ELSE fs[p]]

(***************************************************************************)
(* Inputs: pages of 400 x 300 pixels, a catalogue of contours on them,     *)
(* recognizer records around the contour cLarge.                           *)
(***************************************************************************)
Contour(x, y, w, h, area2, edges) ==
    [x |-> x, y |-> y, w |-> w, h |-> h, area2 |-> area2, edges |-> edges]

\* area 500
cTiny == Contour(10, 200, 30, 30, 1000, 0)

\* area 2500 = min_area, edge density exactly 0.15
cMin == Contour(50, 200, 60, 50, 5000, 450)

\* area 12000, edge density above 0.15, aspect 1
cLarge == Contour(100, 100, 120, 120, 24000, 3000)

\* area 12000 again, elsewhere on the page, elongated (aspect above 3.0)
cLargeTwin == Contour(150, 225, 240, 70, 24000, 3000)

\* area 10000.5, aspect exactly 3.0, edge density 0.2
cSmallHalf == Contour(50, 100, 300, 100, 20001, 6000)

\* area 96000 = 0.8 * page area
cPageMax == Contour(0, 0, 400, 300, 192000, 1000)

\* area 96000.5
cOverMax == Contour(0, 0, 400, 300, 192001, 1000)

ContourCatalogue ==
    {cTiny, cMin, cLarge, cLargeTwin, cSmallHalf, cPageMax, cOverMax}

SeqsUpTo(S, n) == UNION {[1..k -> S] : k \in 0..n}

NoisyPage(readable, noise, contours) ==
    [width |-> 400, height |-> 300, readable |-> readable, noise |-> noise,
     contours |-> contours]

Page(readable, contours) == NoisyPage(readable, 0, contours)

Pages ==
    {Page(TRUE, cs) : cs \in SeqsUpTo(ContourCatalogue, MaxContours)}
        \cup {Page(FALSE, <<>>)}

Element(x, y, w, h, confidence) ==
    [x |-> x, y |-> y, width |-> w, height |-> h, confidence |-> confidence]

\* covers exactly 0.3 of Large's bounding box
eExact == Element(100, 100, 36, 120, 95)

\* a second box covering exactly 0.3 of it, next to the first
eExact2 == Element(136, 100, 36, 120, 31)

\* covers 50% of it, confidence exactly 30
eHalf30 == Element(100, 100, 60, 120, 30)

\* covers 50% of it
eHalf == Element(100, 100, 60, 120, 88)

ElementCatalogue == {eExact, eExact2, eHalf30, eHalf}

Ocr(has, elements) == [has_text_elements |-> has, text_elements |-> elements]

Ocrs ==
    {Ocr(TRUE, es) : es \in SeqsUpTo(ElementCatalogue, MaxText)}
        \cup {Ocr(FALSE, <<>>)}

PdfNames == {"doc"}

PageNums == {1}

\* feature triples for direct calls of the classifier
EdgeDensities == {<<0, 1>>, <<5, 100>>, <<15, 100>>, <<3, 20>>, <<16, 100>>, <<2, 10>>}

AspectRatios == {<<0, 1>>, <<3, 2>>, <<3, 1>>, <<301, 100>>, <<4, 1>>}

Areas == {0, 2500, 9999, 10000, 10001, 15000, 20000}

RegionInfos ==
    [edge_density : EdgeDensities, aspect_ratio : AspectRatios, area : Areas]

\* the inputs of the runs that are compared with each other
SeqPages ==
    {Page(TRUE, <<>>), Page(TRUE, <<cLarge>>), Page(TRUE, <<cMin, cLarge>>),
     Page(TRUE, <<cLarge, cLargeTwin>>), Page(FALSE, <<>>)}

SeqOcrs == {Ocr(TRUE, <<>>), Ocr(TRUE, <<eHalf>>), Ocr(TRUE, <<eExact, eHalf30>>)}

(***************************************************************************)
(* Inputs of the runs with a failing environment and of direct calls       *)
(***************************************************************************)
\* what cv2.imwrite does with a non-empty image: it writes the file, or it
\* returns False without writing (the return value is not looked at)
WriteOutcomes == {"written", "not_written"}

IoPages ==
    {Page(TRUE, <<>>), Page(TRUE, <<cLarge>>), Page(TRUE, <<cTiny, cLarge>>),
     Page(TRUE, <<cMin, cLarge>>), NoisyPage(TRUE, 999, <<cMin, cLarge>>),
     Page(FALSE, <<>>)}

IoOcrs ==
    {Ocr(TRUE, <<>>), Ocr(TRUE, <<eHalf>>), Ocr(TRUE, <<eExact>>), Ocr(FALSE, <<>>)}

\* a region dict as a caller of extract_image_regions passes it
Region(id, x, y, w, h, type) ==
    [id |-> id, x |-> x, y |-> y, width |-> w, height |-> h, type |-> type]

rInside == Region(0, 100, 100, 120, 120, "large_image")

\* detected on a wider rendering of the page: it lies right of this image
rOutside == Region(1, 500, 50, 60, 50, "graphic_element")

rInside2 == Region(2, 50, 200, 60, 50, "graphic_element")

DirectRegionLists ==
    {<<rInside>>, <<rOutside>>, <<rInside, rInside2>>, <<rInside, rOutside, rInside2>>}

(***************************************************************************)
(* State machine                                                           *)
(***************************************************************************)
\* the locals of a page worker that has not been given a page
IdleContext ==
    [pc |-> "idle", image_path |-> NoValue, ocr_result |-> NoValue,
     pdf_name |-> NoValue, page_num |-> 0, text_regions |-> <<>>,
     image_regions |-> <<>>, extracted_paths |-> <<>>, result |-> NoValue,
     exception |-> NoValue, trace |-> <<>>]

Init ==
    /\ detection_params =
          [min_area |-> 2500, max_area_ratio |-> <<8, 10>>,
           text_density_threshold |-> <<3, 10>>]
    /\ region_classification =
          [aspect_ratio_threshold |-> <<3, 1>>, size_threshold |-> 10000,
           edge_density_threshold |-> <<15, 100>>]
    /\ pc = "idle"
    /\ image_path = NoValue
    /\ ocr_result = NoValue
    /\ pdf_name = NoValue
    /\ page_num = 0
    /\ text_regions = <<>>
    /\ image_regions = <<>>
    /\ extracted_paths = <<>>
    /\ files = <<>>
    /\ result = NoValue
    /\ region_info = NoValue
    /\ region_type = NoValue
    /\ memo = NoValue
    /\ runs = 0
    /\ exception = NoValue
    /\ trace = <<>>
    /\ other = IdleContext
    /\ conv = NoValue
    /\ html = NoValue
    /\ parse = NoValue
    /\ batch = NoValue

\* process_page_with_ocr(p, o, name, n) is entered
StartPage(p, o, name, n) ==
    /\ image_path' = p
    /\ ocr_result' = o
    /\ pdf_name' = name
    /\ page_num' = n
    /\ pc' = "detect_text"
    /\ runs' = runs + 1
    /\ exception' = NoValue
    /\ UNCHANGED <<self_vars, app_vars, text_regions, image_regions, extracted_paths,
                   files, result, trace, region_info, region_type, memo, other>>

\* a caller enters process_page_with_ocr(image_path, ocr_result, pdf_name, page_num)
ProcessPageWithOcr(P, O, N) ==
    /\ pc = "idle"
    /\ \E p \in P, o \in O, name \in PdfNames, n \in N : StartPage(p, o, name, n)
    /\ UNCHANGED conv

DetectTextRegionsFromOcr ==
    /\ pc = "detect_text"
    /\ text_regions' = detect_text_regions_from_ocr(ocr_result)
    /\ pc' = "find"
    /\ UNCHANGED <<self_vars, side_vars, image_path, ocr_result, pdf_name,
                   page_num, image_regions, extracted_paths, files, result,
                   runs, exception, trace>>

\* a list that lives on the instance and is never emptied between pages
FindImageRegionsAccumulating ==
    /\ pc = "find"
    /\ IF image_path.readable
       THEN /\ image_regions' =
                  sort_by_area_desc(ContourLoop(image_path, text_regions,
                                                image_path.noise, image_regions))
            /\ trace' = StageTrace(image_path, text_regions, image_path.noise)
            /\ pc' = IF image_regions' # <<>> THEN "extract" ELSE "save"
            /\ UNCHANGED exception
       ELSE /\ pc' = "raised"
            /\ exception' = "unreadable_image"
            /\ UNCHANGED <<image_regions, trace>>
    /\ extracted_paths' = <<>>
    /\ UNCHANGED <<self_vars, side_vars, image_path, ocr_result, pdf_name,
                   page_num, text_regions, files, result, runs>>

\* an unreadable page is logged and gives an empty list
FindImageRegionsSwallowing ==
    /\ pc = "find"
    /\ IF image_path.readable
       THEN /\ image_regions' = find_image_regions(image_path, text_regions)
            /\ trace' = StageTrace(image_path, text_regions, image_path.noise)
            /\ pc' = IF image_regions' # <<>> THEN "extract" ELSE "save"
            /\ UNCHANGED exception
       ELSE /\ pc' = "save"
            /\ image_regions' = <<>>
            /\ UNCHANGED <<exception, trace>>
    /\ extracted_paths' = <<>>
    /\ UNCHANGED <<self_vars, side_vars, image_path, ocr_result, pdf_name,
                   page_num, text_regions, files, result, runs>>

\* find_image_regions(image_path, text_regions); an unreadable page raises
\* ValueError, and process_page_with_ocr re-raises it
FindImageRegions ==
    /\ pc = "find"
    /\ IF image_path.readable
       THEN /\ image_regions' = find_image_regions(image_path, text_regions)
            /\ trace' = StageTrace(image_path, text_regions, image_path.noise)
            /\ pc' = IF image_regions' # <<>> THEN "extract" ELSE "save"
            /\ UNCHANGED exception
       ELSE /\ pc' = "raised"
            /\ exception' = "unreadable_image"
            /\ UNCHANGED <<image_regions, trace>>
    /\ extracted_paths' = <<>>
    /\ UNCHANGED <<self_vars, side_vars, image_path, ocr_result, pdf_name,
                   page_num, text_regions, files, result, runs>>

\* a caller enters extract_image_regions with a page image and its own regions
CallExtractImageRegions(P, L) ==
    /\ pc = "idle"
    /\ \E p \in P, regions \in L, name \in PdfNames, n \in PageNums :
          /\ image_path' = p
          /\ image_regions' = regions
          /\ pdf_name' = name
          /\ page_num' = n
    /\ pc' = "extract_call"
    /\ extracted_paths' = <<>>
    /\ exception' = NoValue
    /\ UNCHANGED <<self_vars, side_vars, ocr_result, text_regions, files,
                   result, runs, trace>>

\* an except clause around the write that goes on with the next region
ExtractImageRegionsSkipping(R, W) ==
    /\ pc \in {"extract", "extract_call"}
    /\ LET region == image_regions[Len(extracted_paths) + 1]
           region_path == RegionPath(pdf_name, page_num, region)
           after == IF pc = "extract" THEN "save" ELSE "extracted"
           last == Len(extracted_paths) + 1 = Len(image_regions)
       IN \E readable_now \in
                (IF extracted_paths # <<>> THEN {TRUE}
                 ELSE IF image_path.readable THEN R ELSE {FALSE}) :
            IF ~ readable_now
            THEN /\ pc' = "raised"
                 /\ exception' = "unreadable_image"
                 /\ image_path' = [image_path EXCEPT !.readable = FALSE]
                 /\ UNCHANGED <<files, extracted_paths>>
            ELSE IF RoiEmpty(image_path, region)
            THEN /\ pc' = IF last THEN after ELSE pc
                 /\ extracted_paths' = Append(extracted_paths, region_path)
                 /\ UNCHANGED <<image_path, files, exception>>
            ELSE \E outcome \in W :
                    /\ files' = IF outcome = "written"
                                THEN WriteFile(files, region_path,
                                               Crop(image_path, region))
                                ELSE files
                    /\ extracted_paths' = Append(extracted_paths, region_path)
                    /\ pc' = IF last THEN after ELSE pc
                    /\ UNCHANGED <<image_path, exception>>
    /\ UNCHANGED <<self_vars, side_vars, ocr_result, pdf_name, page_num,
                   text_regions, image_regions, result, runs, trace>>

\* one iteration of the loop of extract_image_regions; the first one follows
\* cv2.imread and mkdir.  R: what imread can find (is the page still readable),
\* W: what imwrite can do.  An exception leaves through the except clause.
ExtractImageRegions(R, W) ==
    /\ pc \in {"extract", "extract_call"}
    /\ LET region == image_regions[Len(extracted_paths) + 1]
           region_path == RegionPath(pdf_name, page_num, region)
           after == IF pc = "extract" THEN "save" ELSE "extracted"
           last == Len(extracted_paths) + 1 = Len(image_regions)
       IN \E readable_now \in
                (IF extracted_paths # <<>> THEN {TRUE}
                 ELSE IF image_path.readable THEN R ELSE {FALSE}) :
            IF ~ readable_now
            THEN /\ pc' = "raised"
                 /\ exception' = "unreadable_image"
                 /\ image_path' = [image_path EXCEPT !.readable = FALSE]
                 /\ UNCHANGED <<files, extracted_paths>>
            ELSE IF RoiEmpty(image_path, region)
            THEN /\ pc' = "raised"
                 /\ exception' = "empty_roi"
                 /\ UNCHANGED <<image_path, files, extracted_paths>>
            ELSE \E outcome \in W :
                    /\ files' = IF outcome = "written"
                                THEN WriteFile(files, region_path,
                                               Crop(image_path, region))
                                ELSE files
                    /\ extracted_paths' = Append(extracted_paths, region_path)
                    /\ pc' = IF last THEN after ELSE pc
                    /\ UNCHANGED <<image_path, exception>>
    /\ UNCHANGED <<self_vars, side_vars, ocr_result, pdf_name, page_num,
                   text_regions, image_regions, result, runs, trace>>

\* the paths collected with insert(0, path) instead of append(path)
SaveRegionDetectionResultPrepending ==
    /\ pc = "save"
    /\ result' =
          [page_number            |-> page_num,
           pdf_name               |-> pdf_name,
           text_regions           |-> text_regions,
           image_regions          |-> image_regions,
           extracted_region_paths |->
               [k \in DOMAIN extracted_paths |->
                   extracted_paths[Len(extracted_paths) + 1 - k]],
           total_text_regions     |-> Len(text_regions),
           total_image_regions    |-> Len(image_regions)]
    /\ files' = WriteFile(files, RegionsJsonPath(pdf_name, page_num), result')
    /\ pc' = "done"
    /\ UNCHANGED <<self_vars, side_vars, image_path, ocr_result, pdf_name,
                   page_num, text_regions, image_regions, extracted_paths,
                   runs, exception, trace>>

\* json.dump of the counts only, without the two lists
SaveRegionDetectionResultCountsOnly ==
    /\ pc = "save"
    /\ result' =
          [page_number            |-> page_num,
           pdf_name               |-> pdf_name,
           text_regions           |-> text_regions,
           image_regions          |-> image_regions,
           extracted_region_paths |-> extracted_paths,
           total_text_regions     |-> Len(text_regions),
           total_image_regions    |-> Len(image_regions)]
    /\ files' = WriteFile(files, RegionsJsonPath(pdf_name, page_num),
                          [page_number         |-> page_num,
                           pdf_name            |-> pdf_name,
                           total_text_regions  |-> Len(text_regions),
                           total_image_regions |-> Len(image_regions)])
    /\ pc' = "done"
    /\ UNCHANGED <<self_vars, side_vars, image_path, ocr_result, pdf_name,
                   page_num, text_regions, image_regions, extracted_paths,
                   runs, exception, trace>>

\* the result is assembled, saved and returned
SaveRegionDetectionResult ==
    /\ pc = "save"
    /\ result' =
          [page_number            |-> page_num,
           pdf_name               |-> pdf_name,
           text_regions           |-> text_regions,
           image_regions          |-> image_regions,
           extracted_region_paths |-> extracted_paths,
           total_text_regions     |-> Len(text_regions),
           total_image_regions    |-> Len(image_regions)]
    /\ files' = WriteFile(files, RegionsJsonPath(pdf_name, page_num), result')
    /\ pc' = "done"
    /\ UNCHANGED <<self_vars, side_vars, image_path, ocr_result, pdf_name,
                   page_num, text_regions, image_regions, extracted_paths,
                   runs, exception, trace>>

\* region['type'] = region['type'].upper() instead of a local label
CreateVisualizationRelabelling(R, W) ==
    /\ pc = "done"
    /\ \E readable_now \in (IF image_path.readable THEN R ELSE {FALSE}) :
          IF ~ readable_now
          THEN /\ pc' = "raised"
               /\ exception' = "unreadable_image"
               /\ image_path' = [image_path EXCEPT !.readable = FALSE]
               /\ UNCHANGED <<files, result>>
          ELSE \E outcome \in W :
                  /\ files' = IF outcome = "written"
                              THEN WriteFile(files,
                                             VisualizationPath(result.pdf_name,
                                                               result.page_number),
                                             [page |-> image_path,
                                              text_regions |-> result.text_regions,
                                              image_regions |-> result.image_regions])
                              ELSE files
                  /\ result' = [result EXCEPT !.image_regions =
                                   [k \in DOMAIN result.image_regions |->
                                       [result.image_regions[k] EXCEPT !.type = "UPPER"]]]
                  /\ pc' = "visualized"
                  /\ UNCHANGED <<image_path, exception>>
    /\ UNCHANGED <<self_vars, side_vars, ocr_result, pdf_name, page_num,
                   text_regions, image_regions, extracted_paths, runs, trace>>

\* create_visualization(image_path, result) after process_page_with_ocr returned
CreateVisualization(R, W) ==
    /\ pc = "done"
    /\ \E readable_now \in (IF image_path.readable THEN R ELSE {FALSE}) :
          IF ~ readable_now
          THEN /\ pc' = "raised"
               /\ exception' = "unreadable_image"
               /\ image_path' = [image_path EXCEPT !.readable = FALSE]
               /\ UNCHANGED files
          ELSE \E outcome \in W :
                  /\ files' = IF outcome = "written"
                              THEN WriteFile(files,
                                             VisualizationPath(result.pdf_name,
                                                               result.page_number),
                                             [page |-> image_path,
                                              text_regions |-> result.text_regions,
                                              image_regions |-> result.image_regions])
                              ELSE files
                  /\ pc' = "visualized"
                  /\ UNCHANGED <<image_path, exception>>
    /\ UNCHANGED <<self_vars, side_vars, ocr_result, pdf_name, page_num,
                   text_regions, image_regions, extracted_paths, result, runs,
                   trace>>

\* a direct call of _classify_region_type
ClassifyRegionType ==
    /\ pc = "idle"
    /\ \E info \in RegionInfos :
          /\ region_info' = info
          /\ region_type' = classify_region_type(info)
    /\ pc' = "classified"
    /\ UNCHANGED <<self_vars, app_vars, memo, other, conv, image_path, ocr_result,
                   pdf_name, page_num, text_regions, image_regions,
                   extracted_paths, files, result, runs, exception, trace>>

\* the caller goes on to its next page with the same detector instance
NextPage ==
    /\ pc \in {"done", "raised"}
    /\ runs < MaxRuns
    /\ pc' = "idle"
    /\ exception' = NoValue
    /\ UNCHANGED <<self_vars, side_vars, image_path, ocr_result, pdf_name,
                   page_num, text_regions, image_regions, extracted_paths,
                   files, result, runs, trace>>

\* an observer keeps the input and output of one find_image_regions call
Remember ==
    /\ pc \in {"extract", "save"}
    /\ extracted_paths = <<>>
    /\ memo = NoValue
    /\ memo' = [image |-> image_path, boxes |-> text_regions,
                regions |-> image_regions, run |-> runs]
    /\ UNCHANGED <<self_vars, app_vars, region_info, region_type, other, conv, pc,
                   image_path, ocr_result, pdf_name, page_num, text_regions,
                   image_regions, extracted_paths, files, result, runs,
                   exception, trace>>

\* one page on a detector whose file system and page image do not fail
Next ==
    \/ ProcessPageWithOcr(Pages, Ocrs, PageNums)
    \/ DetectTextRegionsFromOcr
    \/ FindImageRegions
    \/ ExtractImageRegions({TRUE}, {"written"})
    \/ SaveRegionDetectionResult
    \/ ClassifyRegionType

Spec == Init /\ [][Next]_vars

\* several pages, one after the other, on one detector instance
NextSeq ==
    \/ ProcessPageWithOcr(SeqPages, SeqOcrs, PageNums)
    \/ DetectTextRegionsFromOcr
    \/ FindImageRegions
    \/ ExtractImageRegions({TRUE}, {"written"})
    \/ SaveRegionDetectionResult
    \/ NextPage
    \/ Remember

SpecSeq == Init /\ [][NextSeq]_vars

\* one call on a fresh project directory; reads and writes may fail
NextIO ==
    \/ ProcessPageWithOcr(IoPages, IoOcrs, PageNums)
    \/ CallExtractImageRegions(IoPages, DirectRegionLists)
    \/ DetectTextRegionsFromOcr
    \/ FindImageRegions
    \/ ExtractImageRegions(BOOLEAN, WriteOutcomes)
    \/ SaveRegionDetectionResult
    \/ CreateVisualization(BOOLEAN, WriteOutcomes)

SpecIO == Init /\ [][NextIO]_vars

(***************************************************************************)
(* convert_pdf_to_html, stage 3: the region detection loop over the pages  *)
(***************************************************************************)
\* what the earlier stages left for one page: the OCR data load_ocr_data
\* finds (NoValue: None) and the page image (NoValue: no file)
DocPage(ocr, image) == [ocr |-> ocr, image |-> image]

dGood == DocPage(Ocr(TRUE, <<>>), Page(TRUE, <<cLarge>>))

dGoodText == DocPage(Ocr(TRUE, <<eExact>>), Page(TRUE, <<cMin>>))

\* page_NNN.png exists but cannot be decoded
dUndecodable == DocPage(Ocr(TRUE, <<>>), Page(FALSE, <<>>))

dNoOcr == DocPage(NoValue, Page(TRUE, <<cLarge>>))

dNoImage == DocPage(Ocr(TRUE, <<>>), NoValue)

DocPages == {dGood, dGoodText, dUndecodable, dNoOcr, dNoImage}

\* documents of 1..MaxPages pages (ocr_stats['processed_pages'])
Documents == UNION {[1..n -> DocPages] : n \in 1..MaxPages}

\* the region loop is entered for a document
ConvertPdfToHtml ==
    /\ pc = "idle"
    /\ conv = NoValue
    /\ \E d \in Documents :
          conv' = [pages |-> d, page_num |-> 1, region_results |-> <<>>,
                   stage |-> "regions", error |-> NoValue]
    /\ UNCHANGED <<self_vars, app_vars, region_info, region_type, memo, other, pc,
                   image_path, ocr_result, pdf_name, page_num, text_regions,
                   image_regions, extracted_paths, files, result, runs,
                   exception, trace>>

\* the head of one iteration: a page without OCR data or without image is
\* passed over, any other page goes to process_page_with_ocr
ConvertRegionLoop ==
    /\ pc = "idle"
    /\ conv # NoValue
    /\ conv.stage = "regions"
    /\ conv.page_num <= Len(conv.pages)
    /\ LET page == conv.pages[conv.page_num]
       IN IF page.ocr = NoValue \/ page.image = NoValue
          THEN /\ conv' = [conv EXCEPT !.page_num = @ + 1]
               /\ UNCHANGED <<self_vars, app_vars, region_info, region_type, memo, other,
                              pc, image_path, ocr_result, pdf_name, page_num,
                              text_regions, image_regions, extracted_paths,
                              files, result, runs, exception, trace>>
          ELSE /\ StartPage(page.image, page.ocr, "doc", conv.page_num)
               /\ UNCHANGED conv

\* region_results.append(region_result), next iteration
ConvertCollect ==
    /\ pc = "done"
    /\ conv # NoValue
    /\ conv.stage = "regions"
    /\ conv' = [conv EXCEPT !.region_results = Append(@, result),
                            !.page_num = @ + 1]
    /\ pc' = "idle"
    /\ UNCHANGED <<self_vars, app_vars, region_info, region_type, memo, other,
                   image_path, ocr_result, pdf_name, page_num, text_regions,
                   image_regions, extracted_paths, files, result, runs,
                   exception, trace>>

\* an except clause that logs the error and lets the conversion go on
ConvertFailResuming ==
    /\ pc = "raised"
    /\ conv # NoValue
    /\ conv.stage \notin {"failed", "returned"}
    /\ conv' = [conv EXCEPT !.stage = IF @ = "validate" THEN "pdf"
                                      ELSE IF @ = "pdf" THEN "ocr"
                                      ELSE IF @ = "ocr" THEN "regions"
                                      ELSE IF @ = "regions" THEN "regions"
                                      ELSE "returned",
                            !.page_num = IF conv.stage = "regions" THEN @ + 1 ELSE @,
                            !.error = exception]
    /\ pc' = "idle"
    /\ UNCHANGED <<self_vars, app_vars, region_info, region_type, memo, other,
                   image_path, ocr_result, pdf_name, page_num, text_regions,
                   image_regions, extracted_paths, files, result, runs,
                   exception, trace>>

\* an exception of a stage reaches the except clause of convert_pdf_to_html,
\* which returns {'success': False, 'error': ...}
ConvertFail ==
    /\ pc = "raised"
    /\ conv # NoValue
    /\ conv.stage \notin {"failed", "returned"}
    /\ conv' = [conv EXCEPT !.stage = "failed", !.error = exception]
    /\ pc' = "idle"
    /\ UNCHANGED <<self_vars, app_vars, region_info, region_type, memo, other,
                   image_path, ocr_result, pdf_name, page_num, text_regions,
                   image_regions, extracted_paths, files, result, runs,
                   exception, trace>>

\* the loop is over, the conversion goes on to the HTML stage
ConvertGenerateHtml ==
    /\ pc = "idle"
    /\ conv # NoValue
    /\ conv.stage = "regions"
    /\ conv.page_num > Len(conv.pages)
    /\ conv' = [conv EXCEPT !.stage = "html"]
    /\ UNCHANGED <<self_vars, app_vars, region_info, region_type, memo, other, pc,
                   image_path, ocr_result, pdf_name, page_num, text_regions,
                   image_regions, extracted_paths, files, result, runs,
                   exception, trace>>

\* one conversion of a document of several pages
NextBatch ==
    \/ ConvertPdfToHtml
    \/ ConvertRegionLoop
    \/ DetectTextRegionsFromOcr
    \/ FindImageRegions
    \/ ExtractImageRegions({TRUE}, {"written"})
    \/ SaveRegionDetectionResult
    \/ ConvertCollect
    \/ ConvertFail
    \/ ConvertGenerateHtml

SpecBatch == Init /\ [][NextBatch]_vars

(***************************************************************************)
(* Two page workers of an external scheduler on one project directory      *)
(***************************************************************************)
ParPages == {Page(TRUE, <<cLarge>>), Page(TRUE, <<cMin, cLarge>>), Page(FALSE, <<>>)}

ParOcrs == {Ocr(TRUE, <<>>), Ocr(TRUE, <<eExact>>)}

ParPageNums == {1, 2}

\* the locals of the running worker
Context ==
    [pc |-> pc, image_path |-> image_path, ocr_result |-> ocr_result,
     pdf_name |-> pdf_name, page_num |-> page_num,
     text_regions |-> text_regions, image_regions |-> image_regions,
     extracted_paths |-> extracted_paths, result |-> result,
     exception |-> exception, trace |-> trace]

\* the scheduler suspends the running worker and resumes the other one; the
\* project directory is the only thing the two share
Switch ==
    /\ other' = Context
    /\ pc' = other.pc
    /\ image_path' = other.image_path
    /\ ocr_result' = other.ocr_result
    /\ pdf_name' = other.pdf_name
    /\ page_num' = other.page_num
    /\ text_regions' = other.text_regions
    /\ image_regions' = other.image_regions
    /\ extracted_paths' = other.extracted_paths
    /\ result' = other.result
    /\ exception' = other.exception
    /\ trace' = other.trace
    /\ UNCHANGED <<self_vars, app_vars, region_info, region_type, memo, conv, files, runs>>

NextPar ==
    \/ ProcessPageWithOcr(ParPages, ParOcrs, ParPageNums)
    \/ DetectTextRegionsFromOcr
    \/ FindImageRegions
    \/ ExtractImageRegions({TRUE}, {"written"})
    \/ SaveRegionDetectionResult
    \/ Switch

SpecPar == Init /\ [][NextPar]_vars

(***************************************************************************)
(* parse_page_range (main.py)                                              *)
(***************************************************************************)
\* a string is a sequence of characters
DigitChars == {"0", "1", "5"}

Chars == DigitChars \cup {"-", "a", " ", "+"}

Strings == UNION {[1..n -> Chars] : n \in 0..MaxChars}

ValueError == [error |-> "ValueError"]

DigitOf(c) == CASE c = "0" -> 0 [] c = "1" -> 1 [] c = "5" -> 5

\* str.strip() for the blank
RECURSIVE Strip(_)
Strip(s) ==
    IF s = <<>> THEN s
    ELSE IF Head(s) = " " THEN Strip(Tail(s))
    ELSE IF s[Len(s)] = " " THEN Strip(SubSeq(s, 1, Len(s) - 1))
    ELSE s

\* the (start_page, end_page) tuple
PageRange(start, end) == [start |-> start, end |-> end]

\* the value of a run of digits, left to right; [int |-> n] is the integer n
RECURSIVE DigitRun(_, _)
DigitRun(s, acc) ==
    IF s = <<>> THEN [int |-> acc]
    ELSE IF Head(s) \in DigitChars THEN DigitRun(Tail(s), 10 * acc + DigitOf(Head(s)))
    ELSE ValueError

\* int('') is 0
IntOfLenient(s) ==
    LET t == Strip(s)
        u == IF t # <<>> /\ Head(t) = "+" THEN Tail(t) ELSE t
    IN DigitRun(u, 0)

\* int(s) of a string without '-': blanks around it and a '+' before the
\* digits are accepted, anything else raises ValueError
IntOf(s) ==
    LET t == Strip(s)
        u == IF t # <<>> /\ Head(t) = "+" THEN Tail(t) ELSE t
    IN IF u = <<>> THEN ValueError ELSE DigitRun(u, 0)

\* s.split('-')
RECURSIVE Split(_, _, _)
Split(s, piece, acc) ==
    IF s = <<>> THEN Append(acc, piece)
    ELSE IF Head(s) = "-" THEN Split(Tail(s), <<>>, Append(acc, piece))
    ELSE Split(Tail(s), Append(piece, Head(s)), acc)

\* the except clause maps ValueError, of int() and of the unpacking of a
\* split that does not have two parts, to None
parse_page_range(page_range_str) ==
    IF \E i \in DOMAIN page_range_str : page_range_str[i] = "-"
    THEN LET parts == Split(page_range_str, <<>>, <<>>)
         IN IF Len(parts) # 2 THEN NoValue
            ELSE IF IntOf(parts[1]) = ValueError THEN NoValue
            ELSE IF IntOf(parts[2]) = ValueError THEN NoValue
            ELSE PageRange(IntOf(parts[1]).int, IntOf(parts[2]).int)
    ELSE IF IntOf(page_range_str) = ValueError THEN NoValue
         ELSE PageRange(IntOf(page_range_str).int, IntOf(page_range_str).int)

\* the command line hands --pages to parse_page_range
ParsePageRange ==
    /\ pc = "idle"
    /\ \E s \in Strings : parse' = [arg |-> s, value |-> parse_page_range(s)]
    /\ pc' = "parsed"
    /\ UNCHANGED <<self_vars, region_info, region_type, memo, other, conv,
                   html, batch, image_path, ocr_result, pdf_name, page_num,
                   text_regions, image_regions, extracted_paths, files, result,
                   runs, exception, trace>>

NextParse == ParsePageRange

SpecParse == Init /\ [][NextParse]_vars

(***************************************************************************)
(* HTMLGenerator: generate_page_html and process_pdf_pages                 *)
(***************************************************************************)
\* a recognizer record with its text
TextElement(x, confidence, text) ==
    [x |-> x, y |-> 10, width |-> 50, height |-> 20, confidence |-> confidence,
     text |-> text]

\* confidences around the threshold, a word and a blank
TextElements ==
    {TextElement(x, confidence, text) :
        x \in {10, 200}, confidence \in {29, 30, 31}, text \in {<<"a">>, <<" ">>}}

HtmlOcrs == {Ocr(TRUE, elements) : elements \in SeqsUpTo(TextElements, MaxText)}

\* the loop over text_elements of generate_page_html: the data-element-id of
\* every element it makes a text-element div for
RECURSIVE TextOverlayLoop(_, _, _)
TextOverlayLoop(elements, i, acc) ==
    IF i >= Len(elements) THEN acc
    ELSE LET element == elements[i + 1]
         IN IF element.confidence < 30 THEN TextOverlayLoop(elements, i + 1, acc)
            ELSE IF Strip(element.text) = <<>> THEN TextOverlayLoop(elements, i + 1, acc)
            ELSE TextOverlayLoop(elements, i + 1, Append(acc, i))

generate_page_html(ocr_data) == TextOverlayLoop(ocr_data.text_elements, 0, <<>>)

\* output/text/<pdf>/page_NNN.json
OcrJsonPath(pdf, page) ==
    [dir  |-> <<"output", "text", pdf>>,
     name |-> <<"page", ZeroPad3(page), "json">>]

\* output/html/<pdf>_<timestamp>.html
HtmlPath(pdf) ==
    [dir  |-> <<"output", "html">>,
     name |-> <<pdf, "timestamp", "html">>]

\* text directories: for every page number, no OCR file, a file with records,
\* or a file holding an empty object
TextDirectories == [1..MaxPageNum -> {"none", "data", "empty"}]

\* (start, end) tuples and None
PageRanges ==
    {NoValue} \cup {PageRange(s, e) : s \in 1..(MaxPageNum + 1), e \in 1..(MaxPageNum + 1)}

\* text_dir.glob("page_*.json") without the *_regions.json files, sorted:
\* file names of equal length, so the order of the digits
RECURSIVE SortedOcrPages(_, _)
SortedOcrPages(fs, n) ==
    IF n > MaxPageNum THEN <<>>
    ELSE (IF OcrJsonPath("doc", n) \in DOMAIN fs THEN <<n>> ELSE <<>>)
            \o SortedOcrPages(fs, n + 1)

\* ocr_files[start_idx:end_idx]
Slice(s, start_idx, end_idx) ==
    IF end_idx <= start_idx THEN <<>> ELSE SubSeq(s, start_idx + 1, end_idx)

\* the pages whose data process_pdf_pages puts into pages_data
PagesData(fs, page_range) ==
    LET ocr_files == SortedOcrPages(fs, 1)
        total_pages == Len(ocr_files)
        selected == IF page_range = NoValue THEN ocr_files
                    ELSE Slice(ocr_files, Max(0, page_range.start - 1),
                               Min(total_pages, page_range.end))
    IN SelectSeq(selected, LAMBDA n : fs[OcrJsonPath("doc", n)] # "empty")

\* the earlier stages have left the text directory of the document
TextDirectoryPresent ==
    /\ pc = "idle"
    /\ \E d \in TextDirectories :
          files' = [path \in {OcrJsonPath("doc", n) : n \in {m \in DOMAIN d : d[m] # "none"}}
                       |-> d[DigitsValue(path.name[2])]]
    /\ pc' = "text_ready"
    /\ UNCHANGED <<self_vars, region_info, region_type, memo, other, conv,
                   html, parse, batch, image_path, ocr_result, pdf_name,
                   page_num, text_regions, image_regions, extracted_paths,
                   result, runs, exception, trace>>

\* process_pdf_pages(pdf_name, page_range)
ProcessPdfPages ==
    /\ pc = "text_ready"
    /\ \E page_range \in PageRanges :
          LET pages_data == PagesData(files, page_range)
          IN IF SortedOcrPages(files, 1) = <<>>
             THEN /\ pc' = "raised"
                  /\ exception' = "no_ocr_files"
                  /\ html' = [page_range |-> page_range, pages |-> <<>>]
                  /\ UNCHANGED files
             ELSE IF pages_data = <<>>
             THEN /\ pc' = "raised"
                  /\ exception' = "no_pages_data"
                  /\ html' = [page_range |-> page_range, pages |-> <<>>]
                  /\ UNCHANGED files
             ELSE /\ pc' = "html_done"
                  /\ html' = [page_range |-> page_range, pages |-> pages_data]
                  /\ files' = WriteFile(files, HtmlPath("doc"), pages_data)
                  /\ UNCHANGED exception
    /\ UNCHANGED <<self_vars, region_info, region_type, memo, other, conv,
                   parse, batch, image_path, ocr_result, pdf_name, page_num,
                   text_regions, image_regions, extracted_paths, result, runs,
                   trace>>

\* the OCR data of one page goes to generate_page_html (without region data)
\* and to the detector's text filter
GeneratePageHtml ==
    /\ pc = "idle"
    /\ \E o \in HtmlOcrs :
          html' = [ocr_data |-> o,
                   text_overlays |-> generate_page_html(o),
                   text_boxes |-> detect_text_regions_from_ocr(o)]
    /\ pc' = "rendered"
    /\ UNCHANGED <<self_vars, region_info, region_type, memo, other, conv,
                   parse, batch, image_path, ocr_result, pdf_name, page_num,
                   text_regions, image_regions, extracted_paths, files, result,
                   runs, exception, trace>>

NextHtml ==
    \/ TextDirectoryPresent
    \/ ProcessPdfPages
    \/ GeneratePageHtml

SpecHtml == Init /\ [][NextHtml]_vars

(***************************************************************************)
(* convert_pdf_to_html, all stages                                         *)
(***************************************************************************)
\* how the PDF stage and the HTML stage end
StageOutcomes == {"returns", "raises"}

\* the OCR stage: process_pdf_images of ocr_processor.py ("source"), the
\* stand-in of the integration test that returns a statistics dict
\* ("double"), or an exception
OcrStageKinds == {"source", "double", "raises"}

ConvDocuments == UNION {[1..n -> {dGood, dUndecodable, dNoOcr}] : n \in 1..MaxPages}

\* output/text/<pdf>/<image stem>_ocr.json, as process_pdf_images names it
OcrResultPath(pdf, page) ==
    [dir  |-> <<"output", "text", pdf>>,
     name |-> <<"page", ZeroPad3(page), "ocr", "json">>]

\* the pages of the document that have a page image
ImagePages(pages) == {n \in DOMAIN pages : pages[n].image # NoValue}

\* convert_pdf_to_html(pdf_path) is entered
ConvertStart ==
    /\ pc = "idle"
    /\ conv = NoValue
    /\ \E exists \in BOOLEAN, d \in ConvDocuments, pdf_stage \in StageOutcomes,
          ocr_stage \in OcrStageKinds, html_stage \in StageOutcomes :
          conv' = [pages |-> d, page_num |-> 1, region_results |-> <<>>,
                   stage |-> "validate", error |-> NoValue,
                   pdf_exists |-> exists, pdf_stage |-> pdf_stage,
                   ocr_stage |-> ocr_stage, html_stage |-> html_stage,
                   ocr_persisted |-> {}]
    /\ UNCHANGED <<self_vars, app_vars, region_info, region_type, memo, other,
                   pc, image_path, ocr_result, pdf_name, page_num,
                   text_regions, image_regions, extracted_paths, files, result,
                   runs, exception, trace>>

\* os.path.exists(pdf_path), FileNotFoundError if not
ConvertValidate ==
    /\ pc = "idle"
    /\ conv # NoValue
    /\ conv.stage = "validate"
    /\ IF conv.pdf_exists
       THEN /\ conv' = [conv EXCEPT !.stage = "pdf"]
            /\ UNCHANGED <<pc, exception>>
       ELSE /\ pc' = "raised"
            /\ exception' = "FileNotFoundError"
            /\ UNCHANGED conv
    /\ UNCHANGED <<self_vars, app_vars, region_info, region_type, memo, other,
                   image_path, ocr_result, pdf_name, page_num, text_regions,
                   image_regions, extracted_paths, files, result, runs, trace>>

\* stage 1: pdf_processor.convert_pdf_to_images
ConvertPdfStage ==
    /\ pc = "idle"
    /\ conv # NoValue
    /\ conv.stage = "pdf"
    /\ IF conv.pdf_stage = "returns"
       THEN /\ conv' = [conv EXCEPT !.stage = "ocr"]
            /\ UNCHANGED <<pc, exception>>
       ELSE /\ pc' = "raised"
            /\ exception' = "pdf_stage_error"
            /\ UNCHANGED conv
    /\ UNCHANGED <<self_vars, app_vars, region_info, region_type, memo, other,
                   image_path, ocr_result, pdf_name, page_num, text_regions,
                   image_regions, extracted_paths, files, result, runs, trace>>

\* stage 2: ocr_processor.process_pdf_images, then ocr_stats['processed_pages'].
\* The function of ocr_processor.py saves <stem>_ocr.json for every page image
\* and returns a tuple, which the subscript rejects with TypeError.
ConvertOcrStage ==
    /\ pc = "idle"
    /\ conv # NoValue
    /\ conv.stage = "ocr"
    /\ CASE conv.ocr_stage = "double" ->
               /\ conv' = [conv EXCEPT !.stage = "regions"]
               /\ UNCHANGED <<pc, exception, files>>
         [] conv.ocr_stage = "raises" ->
               /\ pc' = "raised"
               /\ exception' = "ocr_stage_error"
               /\ UNCHANGED <<conv, files>>
         [] conv.ocr_stage = "source" ->
               /\ files' = [path \in DOMAIN files \cup
                                {OcrResultPath("doc", n) : n \in ImagePages(conv.pages)}
                               |-> IF path \in DOMAIN files THEN files[path]
                                   ELSE [text_blocks |-> <<>>]]
               /\ conv' = [conv EXCEPT !.ocr_persisted = ImagePages(conv.pages)]
               /\ pc' = "raised"
               /\ exception' = "TypeError"
    /\ UNCHANGED <<self_vars, app_vars, region_info, region_type, memo, other,
                   image_path, ocr_result, pdf_name, page_num, text_regions,
                   image_regions, extracted_paths, result, runs, trace>>

\* stage 4: html_generator.process_pdf_pages and the report, then the result
\* with success True is returned
ConvertHtmlStage ==
    /\ pc = "idle"
    /\ conv # NoValue
    /\ conv.stage = "html"
    /\ IF conv.html_stage = "returns"
       THEN /\ conv' = [conv EXCEPT !.stage = "returned"]
            /\ files' = WriteFile(files, HtmlPath("doc"), conv.region_results)
            /\ UNCHANGED <<pc, exception>>
       ELSE /\ pc' = "raised"
            /\ exception' = "html_stage_error"
            /\ UNCHANGED <<conv, files>>
    /\ UNCHANGED <<self_vars, app_vars, region_info, region_type, memo, other,
                   image_path, ocr_result, pdf_name, page_num, text_regions,
                   image_regions, extracted_paths, result, runs, trace>>

NextConv ==
    \/ ConvertStart
    \/ ConvertValidate
    \/ ConvertPdfStage
    \/ ConvertOcrStage
    \/ ConvertRegionLoop
    \/ DetectTextRegionsFromOcr
    \/ FindImageRegions
    \/ ExtractImageRegions({TRUE}, {"written"})
    \/ SaveRegionDetectionResult
    \/ ConvertCollect
    \/ ConvertGenerateHtml
    \/ ConvertHtmlStage
    \/ ConvertFail

SpecConv == Init /\ [][NextConv]_vars

(***************************************************************************)
(* batch_convert (main.py)                                                 *)
(***************************************************************************)
\* what convert_pdf_to_html does for one file of the directory: it returns
\* success True, returns success False, or raises
ConvertOutcomes == {"success", "failure", "raises"}

\* the *.pdf files of a directory that holds at least one, numbered in the
\* order glob lists them
PdfDirectories ==
    UNION {[1..n -> ConvertOutcomes] : n \in 1..MaxFiles}

\* the entry the loop appends for file k
BatchEntry(k, outcome) ==
    CASE outcome = "success" -> [success |-> TRUE, pdf_name |-> k]
      [] outcome = "failure" -> [success |-> FALSE, error |-> "error"]
      [] outcome = "raises"  -> [success |-> FALSE, pdf_name |-> k, error |-> "exception"]

\* batch_convert is entered and has listed the directory
BatchConvert ==
    /\ pc = "idle"
    /\ batch = NoValue
    /\ \E d \in PdfDirectories :
          batch' = [pdf_files |-> d, i |-> 1, results |-> <<>>, successful |-> 0,
                    failed |-> 0, batch_result |-> NoValue]
    /\ pc' = "batch"
    /\ UNCHANGED <<self_vars, region_info, region_type, memo, other, conv,
                   html, parse, image_path, ocr_result, pdf_name, page_num,
                   text_regions, image_regions, extracted_paths, files, result,
                   runs, exception, trace>>

\* an except clause that counts the failure and appends nothing
BatchConvertFileDropping ==
    /\ pc = "batch"
    /\ batch.i <= Len(batch.pdf_files)
    /\ LET outcome == batch.pdf_files[batch.i]
       IN batch' = [batch EXCEPT
                      !.i = @ + 1,
                      !.successful = IF outcome = "success" THEN @ + 1 ELSE @,
                      !.failed = IF outcome = "success" THEN @ ELSE @ + 1,
                      !.results = IF outcome = "raises" THEN @
                                  ELSE Append(@, BatchEntry(batch.i, outcome))]
    /\ UNCHANGED <<self_vars, region_info, region_type, memo, other, conv,
                   html, parse, pc, image_path, ocr_result, pdf_name, page_num,
                   text_regions, image_regions, extracted_paths, files, result,
                   runs, exception, trace>>

\* one iteration of the loop over pdf_files
BatchConvertFile ==
    /\ pc = "batch"
    /\ batch.i <= Len(batch.pdf_files)
    /\ LET outcome == batch.pdf_files[batch.i]
       IN batch' = [batch EXCEPT
                      !.i = @ + 1,
                      !.successful = IF outcome = "success" THEN @ + 1 ELSE @,
                      !.failed = IF outcome = "success" THEN @ ELSE @ + 1,
                      !.results = Append(@, BatchEntry(batch.i, outcome))]
    /\ UNCHANGED <<self_vars, region_info, region_type, memo, other, conv,
                   html, parse, pc, image_path, ocr_result, pdf_name, page_num,
                   text_regions, image_regions, extracted_paths, files, result,
                   runs, exception, trace>>

\* batch_result is assembled and returned
BatchReturn ==
    /\ pc = "batch"
    /\ batch.i > Len(batch.pdf_files)
    /\ batch' = [batch EXCEPT !.batch_result =
                    [total_files |-> Len(batch.pdf_files),
                     successful  |-> batch.successful,
                     failed      |-> batch.failed,
                     results     |-> batch.results]]
    /\ pc' = "batch_done"
    /\ UNCHANGED <<self_vars, region_info, region_type, memo, other, conv,
                   html, parse, image_path, ocr_result, pdf_name, page_num,
                   text_regions, image_regions, extracted_paths, files, result,
                   runs, exception, trace>>

NextBatchConvert ==
    \/ BatchConvert
    \/ BatchConvertFile
    \/ BatchReturn

SpecBatchConvert == Init /\ [][NextBatchConvert]_vars

(***************************************************************************)
(* Properties                                                              *)
(***************************************************************************)
\* find_image_regions has returned for the current page
Found == pc \in {"extract", "save", "done"}

\* detect_text_regions_from_ocr has returned for the current page
TextDetected == pc \in {"find", "extract", "save", "done", "raised"}

PageArea == image_path.height * image_path.width

\* area of the intersection of the rectangle (x, y, w, h) with the text box t
IntersectionArea(x, y, w, h, t) ==
    LET dx == Min(x + w, t[1] + t[3]) - Max(x, t[1])
        dy == Min(y + h, t[2] + t[4]) - Max(y, t[2])
    IN IF dx > 0 /\ dy > 0 THEN dx * dy ELSE 0

RecordOverlap(r, t) == IntersectionArea(r.x, r.y, r.width, r.height, t)

ContourOverlap(c, t) == IntersectionArea(c.x, c.y, c.w, c.h, t)

BoxIndices == 1..Len(text_regions)

RecordIndices == 1..Len(image_regions)

ContourIndices ==
    image_path.noise..(image_path.noise + Len(image_path.contours) - 1)

\* the contour discovered at index i
ContourAt(i) == image_path.contours[i - image_path.noise + 1]

\* the contour discovered at index i has a record in the returned list
Emitted(i) == \E k \in RecordIndices : image_regions[k].id = i

\* min_area <= area <= max_area_ratio * page_area with the defaults, area = area2 / 2
AreaInRange(area2) == 2 * 2500 <= area2 /\ 10 * area2 <= 2 * 8 * PageArea

\* C1 (as stated): for every returned record R and text box T,
\* intersection(R, T) / R.area <= 0.3 with R.area the record's contour area.
C1_OverlapOverContourArea ==
    Found =>
        \A k \in RecordIndices : \A j \in BoxIndices :
            10 * RecordOverlap(image_regions[k], text_regions[j])
                <= 3 * image_regions[k].area

\* C1 (amended): for every returned record R and text box T,
\* intersection(R, T) / (R.width * R.height) <= 0.3.
C1_OverlapOverBoundingBox ==
    Found =>
        \A k \in RecordIndices : \A j \in BoxIndices :
            10 * RecordOverlap(image_regions[k], text_regions[j])
                <= 3 * image_regions[k].width * image_regions[k].height

\* a returned record that a text box overlaps
C1_Witness ==
    /\ Found
    /\ \E k \in RecordIndices : \E j \in BoxIndices :
          RecordOverlap(image_regions[k], text_regions[j]) > 0

C3_AreaFilterRange ==
    Found =>
        /\ \A i \in ContourIndices :
              LET c == ContourAt(i)
              IN /\ Emitted(i) => AreaInRange(c.area2)
                 /\ (AreaInRange(c.area2) /\ text_regions = <<>>) => Emitted(i)
        /\ \A k \in RecordIndices :
              /\ 2500 <= image_regions[k].area
              /\ 10 * image_regions[k].area <= 8 * PageArea

\* both boundary areas are returned on one page
C3_Witness ==
    /\ Found
    /\ \E k \in RecordIndices : image_regions[k].area = 2500
    /\ \E k \in RecordIndices : 10 * image_regions[k].area = 8 * PageArea

\* the decision tree of the specification, thresholds 0.15, 3.0 and 10000
DecisionTree(edge_density, aspect_ratio, area) ==
    IF 100 * edge_density[1] > 15 * edge_density[2]
    THEN CASE aspect_ratio[1] > 3 * aspect_ratio[2] -> "diagram"
           [] OTHER -> (CASE area > 10000 -> "large_image"
                          [] OTHER -> "small_image")
    ELSE CASE area > 10000 -> "block_image"
           [] OTHER -> "graphic_element"

\* C4: _classify_region_type returns the decision tree's result for every
\* feature triple; (0.2, 4.0, 20000) is a diagram, (0.05, _, 15000) a block_image.
C4_ClassifierIsDecisionTree ==
    pc = "classified" =>
        /\ region_type = DecisionTree(region_info.edge_density,
                                      region_info.aspect_ratio, region_info.area)
        /\ (/\ region_info.edge_density = <<2, 10>>
            /\ region_info.aspect_ratio = <<4, 1>>
            /\ region_info.area = 20000) => region_type = "diagram"
        /\ (/\ region_info.edge_density = <<5, 100>>
            /\ region_info.area = 15000) => region_type = "block_image"

\* a triple with every feature equal to its threshold
C4_Witness ==
    /\ pc = "classified"
    /\ region_info.edge_density = <<15, 100>>
    /\ region_info.aspect_ratio = <<3, 1>>
    /\ region_info.area = 10000
    /\ region_type = "graphic_element"

\* C5: every type the classifier returns, and every returned record's type, is
\* one of the five tags, and each of the five is returned for some triple.
C5_FiveClosedTypes ==
    /\ pc = "classified" => region_type \in RegionTypes
    /\ Found => \A k \in RecordIndices : image_regions[k].type \in RegionTypes
    /\ \A t \in RegionTypes : \E info \in RegionInfos : classify_region_type(info) = t

\* a page whose records carry two different types
C5_Witness ==
    /\ Found
    /\ \E k1, k2 \in RecordIndices :
          /\ image_regions[k1].type = "graphic_element"
          /\ image_regions[k2].type = "large_image"

\* C6: the record at 0-based position k of the returned list has id = k.
C6_IdEqualsRank ==
    Found => \A k \in RecordIndices : image_regions[k].id = k - 1

\* C7 (as stated): consecutive records are strictly area-descending.
C7_StrictlyDescending ==
    Found =>
        \A k \in RecordIndices :
            k < Len(image_regions) => image_regions[k].area > image_regions[k + 1].area

\* C7 (amended): consecutive records are area-descending, equal areas allowed.
C7_NonIncreasing ==
    Found =>
        \A k \in RecordIndices :
            k < Len(image_regions) => image_regions[k].area >= image_regions[k + 1].area

\* the sort moved a later, larger contour in front of an earlier, smaller one
C7_Witness ==
    /\ Found
    /\ Len(image_regions) >= 2
    /\ image_regions[1].area > image_regions[2].area
    /\ image_regions[1].id > image_regions[2].id

\* C8: two records with equal area are in the order of their contours' discovery.
C8_StableOrder ==
    Found =>
        \A a, b \in RecordIndices :
            (a < b /\ image_regions[a].area = image_regions[b].area)
                => image_regions[a].id < image_regions[b].id

\* two records of equal area and different content
C8_Witness ==
    /\ Found
    /\ \E a, b \in RecordIndices :
          /\ a < b
          /\ image_regions[a].area = image_regions[b].area
          /\ image_regions[a].type # image_regions[b].type

EligibleBoxes(ocr) ==
    IF ocr.has_text_elements
    THEN LET eligible == SelectSeq(ocr.text_elements, LAMBDA e : e.confidence > 30)
         IN [k \in 1..Len(eligible) |->
                <<eligible[k].x, eligible[k].y, eligible[k].width, eligible[k].height>>]
    ELSE <<>>

\* C10: detect_text_regions_from_ocr returns the boxes of exactly the records
\* with confidence > 30, in input order, and nothing without text_elements; in
\* process_page_with_ocr a candidate is excluded only by such a box.
C10_EligibleTextBoxes ==
    /\ TextDetected => text_regions = EligibleBoxes(ocr_result)
    /\ Found =>
          \A i \in ContourIndices :
              LET c == ContourAt(i)
              IN (AreaInRange(c.area2) /\ ~ Emitted(i)) =>
                    \E k \in 1..Len(ocr_result.text_elements) :
                       LET e == ocr_result.text_elements[k]
                       IN /\ e.confidence > 30
                          /\ 10 * ContourOverlap(c, <<e.x, e.y, e.width, e.height>>)
                                > 3 * c.w * c.h
    /\ pc = "done" => result.text_regions = EligibleBoxes(ocr_result)

\* a record with confidence exactly 30 left out, one above 30 kept
C10_Witness ==
    /\ pc = "find"
    /\ ocr_result.has_text_elements
    /\ \E k \in 1..Len(ocr_result.text_elements) :
          ocr_result.text_elements[k].confidence = 30
    /\ Len(ocr_result.text_elements) = 2
    /\ Len(text_regions) = 1

(***************************************************************************)
(* Region files and the page record                                        *)
(***************************************************************************)
\* positions of the regions extract_image_regions has gone through
ExtractedIndices == 1..Len(extracted_paths)

\* the path is in the regions directory of the page and its name is
\* region_<digits>_<type>.png where the digits write the id of the region
NamesRegion(path, region) ==
    /\ path.dir = <<"output", "images", pdf_name, "regions", "page", ZeroPad3(page_num)>>
    /\ Len(path.name) = 4
    /\ path.name[1] = "region"
    /\ DigitsValue(path.name[2]) = region.id
    /\ path.name[3] = region.type
    /\ path.name[4] = "png"

Returned == pc \in {"done", "visualized"}

\* C12: on a successful return the totals of the page record are the lengths
\* of its two lists, and extracted_region_paths is as long as image_regions,
\* with path k naming region k and holding the crop of region k (no region,
\* no path).
C12_RecordIndexAligned ==
    Returned =>
        /\ result.total_text_regions = Len(result.text_regions)
        /\ result.total_image_regions = Len(result.image_regions)
        /\ Len(result.extracted_region_paths) = Len(result.image_regions)
        /\ \A k \in 1..Len(result.image_regions) :
              LET path == result.extracted_region_paths[k]
              IN /\ NamesRegion(path, result.image_regions[k])
                 /\ path \in DOMAIN files
                       => files[path] = Crop(image_path, result.image_regions[k])
        /\ result.image_regions = <<>> => result.extracted_region_paths = <<>>

\* a page with a text box and two regions of different types has returned,
\* both region files are on disk
C12_Witness ==
    /\ pc = "done"
    /\ result.total_text_regions = 1
    /\ result.total_image_regions = 2
    /\ result.image_regions[1].type # result.image_regions[2].type
    /\ \A k \in 1..2 : result.extracted_region_paths[k] \in DOMAIN files

\* the files a page owns: its region files and its page record
PageFiles(fs, pdf, page) ==
    {path \in DOMAIN fs :
        \/ path = RegionsJsonPath(pdf, page)
        \/ path.dir = <<"output", "images", pdf, "regions", "page", ZeroPad3(page)>>}

\* C13: when the page image cannot be read, in detection or at the start of
\* materialization, process_page_with_ocr raises the error to its caller, no
\* record is returned, and the page has no region file and no page record.
C13_UnreadablePageRaises ==
    [][(pc \in {"find", "extract"} /\ ~ image_path'.readable)
          => /\ pc' = "raised"
             /\ exception' = "unreadable_image"
             /\ result' = NoValue
             /\ PageFiles(files', pdf_name, page_num) = {}]_vars

\* text detection has run on the OCR data, then the unreadable page raised
C13_Witness ==
    /\ pc = "raised"
    /\ exception = "unreadable_image"
    /\ ~ image_path.readable
    /\ text_regions # <<>>
    /\ image_regions = <<>>
    /\ result = NoValue

\* ids of the regions of the returned record whose file is not on disk
MissingIds ==
    {result.image_regions[k].id : k \in
        {j \in 1..Len(result.image_regions) :
            RegionPath(result.pdf_name, result.page_number, result.image_regions[j])
                \notin DOMAIN files}}

\* ids the returned record reports as failed: listed in a field, or left out
\* of extracted_region_paths
ReportedFailedIds ==
    IF "failed_region_ids" \in DOMAIN result THEN result.failed_region_ids
    ELSE {result.image_regions[k].id : k \in
            {j \in 1..Len(result.image_regions) :
                \A i \in 1..Len(result.extracted_region_paths) :
                    result.extracted_region_paths[i] #
                        RegionPath(result.pdf_name, result.page_number,
                                   result.image_regions[j])}}

\* C15: a region whose sub-image could not be written is reported as failed by
\* the page-level result, and the other regions of the page are still written:
\* the ids the result reports as failed are exactly those without a file.
C15_FailedIdsRecorded ==
    pc = "done" => MissingIds = ReportedFailedIds

\* the region the loop of extract_image_regions is at
CurrentRegion == image_regions[Len(extracted_paths) + 1]

\* the step of extract_image_regions that is being taken fails: imread finds
\* no page, or the crop of the current region is empty and imwrite raises
MaterializationFails ==
    /\ pc \in {"extract", "extract_call"}
    /\ \/ ~ image_path'.readable
       \/ RoiEmpty(image_path, CurrentRegion)

\* C16: when materialization fails partway, the files already written stay as
\* they are, neither the failing region nor a later one is written, and the
\* error is raised to the caller.
C16_AbortWithoutRollback ==
    [][MaterializationFails
          => /\ pc' = "raised"
             /\ exception' \in {"unreadable_image", "empty_roi"}
             /\ files' = files
             /\ extracted_paths' = extracted_paths
             /\ \A k \in (Len(extracted_paths) + 1)..Len(image_regions) :
                   RegionPath(pdf_name, page_num, image_regions[k])
                       \notin DOMAIN files']_vars

\* the first of three regions is on disk, the second had an empty crop
C16_Witness ==
    /\ pc = "raised"
    /\ exception = "empty_roi"
    /\ Len(image_regions) = 3
    /\ Len(extracted_paths) = 1
    /\ extracted_paths[1] \in DOMAIN files
    /\ RegionPath(pdf_name, page_num, image_regions[3]) \notin DOMAIN files

\* positions of the stage trace of the last find_image_regions call
TraceIndices == 1..Len(trace)

\* the stage ran on the contour of index i, before position n of the trace
RanBefore(i, stage, n) == \E m \in 1..(n - 1) : trace[m] = <<i, stage>>

\* no text box covers more than 0.3 of the bounding box of the contour
TextKept(c) ==
    \A b \in BoxIndices : 10 * ContourOverlap(c, text_regions[b]) <= 3 * (c.w * c.h)

\* C18: features are computed, and the classifier is run, only for a contour
\* that went through the area filter and then the text filter and passed both;
\* a contour below min_area sees the area filter and nothing else.
C18_FiltersBeforeFeatures ==
    Found =>
        /\ \A n \in TraceIndices :
              LET i == trace[n][1]
              IN /\ trace[n][2] \in {"features", "classify"}
                    => /\ \E a \in 1..(n - 1) :
                             /\ trace[a] = <<i, "area_filter">>
                             /\ \E t \in (a + 1)..(n - 1) : trace[t] = <<i, "text_filter">>
                       /\ AreaInRange(ContourAt(i).area2)
                       /\ TextKept(ContourAt(i))
                 /\ trace[n][2] = "classify" => RanBefore(i, "features", n)
                 /\ trace[n][2] = "text_filter" => AreaInRange(ContourAt(i).area2)
        /\ \A i \in ContourIndices :
              /\ ContourAt(i).area2 < 2 * 2500
                    => \A n \in TraceIndices :
                          trace[n][1] = i => trace[n][2] = "area_filter"
              /\ Emitted(i) <=> \E n \in TraceIndices : trace[n] = <<i, "classify">>

\* a contour of area 500 was discarded by the area filter, and the contour
\* next to it went through all four stages, with a text box on the page
C18_Witness ==
    /\ Found
    /\ text_regions # <<>>
    /\ \E i, j \in ContourIndices :
          /\ ContourAt(i).area2 = 2 * 500
          /\ \A n \in TraceIndices : trace[n][1] = i => trace[n][2] = "area_filter"
          /\ \E n \in TraceIndices : trace[n] = <<i, "area_filter">>
          /\ \E n \in TraceIndices : trace[n] = <<j, "classify">>

\* C20: a call of create_visualization, whether it returns or raises, leaves
\* the result record, the persisted page record and every file that existed
\* unchanged; the only file it may add is the visualization of the page.
C20_VisualizationFrame ==
    [][(pc = "done" /\ pc' \in {"visualized", "raised"})
          => /\ result' = result
             /\ \A path \in DOMAIN files :
                   path \in DOMAIN files' /\ files'[path] = files[path]
             /\ files'[RegionsJsonPath(pdf_name, page_num)] = result'
             /\ DOMAIN files' \subseteq
                   DOMAIN files \cup {VisualizationPath(pdf_name, page_num)}]_vars

\* the visualization of a page with a text box and two regions is on disk
C20_Witness ==
    /\ pc = "visualized"
    /\ VisualizationPath(pdf_name, page_num) \in DOMAIN files
    /\ result.total_text_regions = 1
    /\ result.total_image_regions = 2
    /\ \A k \in 1..2 : result.extracted_region_paths[k] \in DOMAIN files

\* the conversion has left the region loop
ConvertEnded == conv # NoValue /\ conv.stage \in {"html", "failed"}

\* page n of the document has OCR data and a page image
Processable(n) == conv.pages[n].ocr # NoValue /\ conv.pages[n].image # NoValue

\* C17: a failure on one page of a document does not abort its sibling pages:
\* every other page with OCR data and a page image has its region detection
\* result collected.
C17_SiblingPagesProcessed ==
    ConvertEnded =>
        \A n \in 1..Len(conv.pages) :
            (Processable(n) /\ conv.pages[n].image.readable)
                => \E k \in 1..Len(conv.region_results) :
                      conv.region_results[k].page_number = n

\* what process_page_with_ocr returns for a readable page, run on its own
SequentialRecord(p, o, name, n) ==
    LET boxes == detect_text_regions_from_ocr(o)
        regions == find_image_regions(p, boxes)
    IN [page_number            |-> n,
        pdf_name               |-> name,
        text_regions           |-> boxes,
        image_regions          |-> regions,
        extracted_region_paths |-> [k \in DOMAIN regions |-> RegionPath(name, n, regions[k])],
        total_text_regions     |-> Len(boxes),
        total_image_regions    |-> Len(regions)]

\* the paths the run of a worker writes when it runs on its own
SequentialPaths(w) ==
    IF ~ w.image_path.readable THEN {}
    ELSE LET record == SequentialRecord(w.image_path, w.ocr_result, w.pdf_name, w.page_num)
         IN {RegionsJsonPath(w.pdf_name, w.page_num)}
               \cup {record.extracted_region_paths[k] : k \in DOMAIN record.image_regions}

\* what is under a path after the run of a worker on its own
SequentialData(w, path) ==
    LET record == SequentialRecord(w.image_path, w.ocr_result, w.pdf_name, w.page_num)
    IN IF path = RegionsJsonPath(w.pdf_name, w.page_num) THEN record
       ELSE Crop(w.image_path,
                 record.image_regions[CHOOSE k \in DOMAIN record.image_regions :
                                         record.extracted_region_paths[k] = path])

\* the worker has finished as it finishes on its own
FinishedAsSequential(w) ==
    IF w.image_path.readable
    THEN /\ w.pc = "done"
         /\ w.result = SequentialRecord(w.image_path, w.ocr_result, w.pdf_name, w.page_num)
    ELSE /\ w.pc = "raised"
         /\ w.result = NoValue

\* C19: two runs of process_page_with_ocr for different (pdf_name, page_num),
\* interleaved in any way, write disjoint sets of files, never put anything
\* else on disk than what each of them writes on its own, and end with the
\* records and files of the two runs done one after the other.
C19_IndependentPages ==
    (/\ pc # "idle"
     /\ other.pc # "idle"
     /\ <<pdf_name, page_num>> # <<other.pdf_name, other.page_num>>)
        => /\ SequentialPaths(Context) \cap SequentialPaths(other) = {}
           /\ \A path \in DOMAIN files :
                 \/ /\ path \in SequentialPaths(Context)
                    /\ files[path] = SequentialData(Context, path)
                 \/ /\ path \in SequentialPaths(other)
                    /\ files[path] = SequentialData(other, path)
           /\ (pc \in {"done", "raised"} /\ other.pc \in {"done", "raised"})
                 => /\ FinishedAsSequential(Context)
                    /\ FinishedAsSequential(other)
                    /\ DOMAIN files = SequentialPaths(Context) \cup SequentialPaths(other)

\* both workers have returned, for pages 1 and 2 of the same document, each
\* with its record and two region files on disk
C19_Witness ==
    /\ pc = "done"
    /\ other.pc = "done"
    /\ pdf_name = other.pdf_name
    /\ page_num # other.page_num
    /\ result.total_image_regions = 2
    /\ other.result.total_image_regions = 2
    /\ Cardinality(DOMAIN files) = 6

(***************************************************************************)
(* Precision of the area                                                   *)
(***************************************************************************)
\* the type the decision tree gives a contour when its size test is made on
\* the contour area itself (area2 / 2 > 10000) and not on the integer kept
\* in the record
TypeAtFullPrecision(c) ==
    IF 100 * c.edges > 15 * (c.w * c.h)
    THEN CASE c.w > 3 * c.h -> "diagram"
           [] OTHER -> (CASE c.area2 > 2 * 10000 -> "large_image"
                          [] OTHER -> "small_image")
    ELSE CASE c.area2 > 2 * 10000 -> "block_image"
           [] OTHER -> "graphic_element"

\* C24: the classifier's size test and the sort key use the contour area the
\* area filter tested, not its truncation: every record has the type its
\* unrounded area gives, and the list descends by the unrounded area.
C24_FullPrecisionDecisions ==
    Found =>
        /\ \A k \in RecordIndices :
              image_regions[k].type = TypeAtFullPrecision(ContourAt(image_regions[k].id))
        /\ \A j, k \in RecordIndices :
              j < k => ContourAt(image_regions[j].id).area2
                          >= ContourAt(image_regions[k].id).area2

(***************************************************************************)
(* The page record on disk                                                 *)
(***************************************************************************)
\* the page record of the current page is on disk
PageRecordOn(fs) == RegionsJsonPath(pdf_name, page_num) \in DOMAIN fs

\* the region files of the current page that are on disk
RegionFilesOn(fs) ==
    {path \in DOMAIN fs :
        path.dir = <<"output", "images", pdf_name, "regions", "page", ZeroPad3(page_num)>>}

\* C25: the page record is written by the last step of process_page_with_ocr,
\* after the extraction loop has gone through every region, it is the record
\* the call returns, no region file is written once it is on disk, and a call
\* that raises leaves no page record.
C25_PageRecordLast ==
    [][/\ (~ PageRecordOn(files) /\ PageRecordOn(files'))
            => /\ pc = "save" /\ pc' = "done"
               /\ Len(extracted_paths) = Len(image_regions)
               /\ files'[RegionsJsonPath(pdf_name, page_num)] = result'
               /\ result'.page_number = page_num
               /\ result'.text_regions = text_regions
               /\ result'.image_regions = image_regions
               /\ result'.total_text_regions = Len(text_regions)
       /\ PageRecordOn(files) => RegionFilesOn(files') = RegionFilesOn(files)
       /\ (pc \in {"find", "extract"} /\ pc' = "raised")
            => ~ PageRecordOn(files')]_vars

\* the record of a page with a text box and two regions is on disk, after
\* the two region files
C25_Witness ==
    /\ pc = "done"
    /\ PageRecordOn(files)
    /\ files[RegionsJsonPath(pdf_name, page_num)].total_text_regions = 1
    /\ Cardinality(RegionFilesOn(files)) = 2

\* C26: the records find_image_regions returns for a page go to pairwise
\* different file paths, so after extraction every region has its own file
\* with its own crop.
C26_DistinctRegionPaths ==
    /\ Found =>
          \A j, k \in RecordIndices :
              j # k => RegionPath(pdf_name, page_num, image_regions[j])
                          # RegionPath(pdf_name, page_num, image_regions[k])
    /\ pc = "done" =>
          /\ Cardinality(RegionFilesOn(files)) = Len(image_regions)
          /\ \A k \in RecordIndices :
                files[extracted_paths[k]] = Crop(image_path, image_regions[k])

\* two regions of the same type and the same area, each in its own file
C26_Witness ==
    /\ pc = "done"
    /\ Len(image_regions) = 2
    /\ image_regions[1].type = image_regions[2].type
    /\ image_regions[1].area = image_regions[2].area
    /\ Cardinality(RegionFilesOn(files)) = 2

\* extract_image_regions has returned its list of paths
Extracted ==
    /\ pc \in {"save", "extracted", "done"}
    /\ Len(extracted_paths) = Len(image_regions)

\* C27: every path extract_image_regions returns names a file that was
\* written, with the crop of the region of the same position.
C27_ReturnedPathsWritten ==
    Extracted =>
        \A k \in ExtractedIndices :
            /\ extracted_paths[k] \in DOMAIN files
            /\ files[extracted_paths[k]] = Crop(image_path, image_regions[k])

(***************************************************************************)
(* The command line                                                        *)
(***************************************************************************)
\* s writes a number: digits, maybe a '+' before them, maybe blanks around
IsNumber(s) ==
    \E i, j \in DOMAIN s :
        /\ i <= j
        /\ \A k \in i..j : s[k] \in DigitChars
        /\ \A k \in (j + 1)..Len(s) : s[k] = " "
        /\ \/ \A k \in 1..(i - 1) : s[k] = " "
           \/ s[i - 1] = "+" /\ \A k \in 1..(i - 2) : s[k] = " "

\* the number s writes
NumberOf(s) ==
    LET digits == SelectSeq(s, LAMBDA c : c \in DigitChars)
    IN DigitsValue([k \in DOMAIN digits |-> DigitOf(digits[k])])

\* positions of '-' in the argument of the call
Dashes == {i \in DOMAIN parse.arg : parse.arg[i] = "-"}

FilesWith(outcomes) ==
    {k \in DOMAIN batch.pdf_files : batch.pdf_files[k] \in outcomes}

\* C22: batch_convert goes through every PDF of the directory once, in order;
\* what it returns has successful + failed = total_files and one result entry
\* per file; a file whose conversion failed or raised is counted as failed
\* and the files after it are still converted.
C22_BatchCounts ==
    /\ pc = "batch" =>
          /\ Len(batch.results) = batch.i - 1
          /\ batch.successful + batch.failed = batch.i - 1
    /\ pc = "batch_done" =>
          LET r == batch.batch_result
          IN /\ r.total_files = Len(batch.pdf_files)
             /\ r.successful + r.failed = r.total_files
             /\ Len(r.results) = r.total_files
             /\ r.successful = Cardinality(FilesWith({"success"}))
             /\ r.failed = Cardinality(FilesWith({"failure", "raises"}))
             /\ \A k \in DOMAIN r.results :
                   /\ r.results[k].success <=> batch.pdf_files[k] = "success"
                   /\ batch.pdf_files[k] # "failure" => r.results[k].pdf_name = k

\* the first file raised, the second failed, the third was converted
C22_Witness ==
    /\ pc = "batch_done"
    /\ batch.pdf_files = <<"raises", "failure", "success">>
    /\ batch.batch_result.successful = 1
    /\ batch.batch_result.failed = 2

(***************************************************************************)
(* The HTML generator                                                      *)
(***************************************************************************)
\* C28: a recognizer record that generate_page_html renders as a text
\* overlay is also one of the detector's exclusion text boxes, whatever its
\* confidence, 30 included.
C28_RenderedTextIsExcluded ==
    pc = "rendered" =>
        \A n \in DOMAIN html.text_overlays :
            LET element == html.ocr_data.text_elements[html.text_overlays[n] + 1]
            IN \E b \in DOMAIN html.text_boxes :
                  html.text_boxes[b] =
                      <<element.x, element.y, element.width, element.height>>

\* C30: with a page_range (s, e) the HTML holds exactly the pages n with
\* s <= n <= e that have OCR data, in ascending order; without a page_range
\* it holds every page that has OCR data, once.
C30_PagesInRange ==
    pc \in {"html_done", "raised"} =>
        LET wanted == {n \in 1..MaxPageNum :
                          /\ OcrJsonPath("doc", n) \in DOMAIN files
                          /\ files[OcrJsonPath("doc", n)] = "data"
                          /\ html.page_range # NoValue
                                => html.page_range.start <= n /\ n <= html.page_range.end}
        IN /\ {html.pages[k] : k \in DOMAIN html.pages} = wanted
           /\ Len(html.pages) = Cardinality(wanted)
           /\ \A j, k \in DOMAIN html.pages : j < k => html.pages[j] < html.pages[k]

(***************************************************************************)
(* convert_pdf_to_html as a whole                                          *)
(***************************************************************************)
\* the conversion has returned a result with success False
ConvertFailed == conv # NoValue /\ conv.stage = "failed"

\* C21: convert_pdf_to_html reports a failed conversion as a value: a missing
\* PDF raises FileNotFoundError inside the try block, an exception of any
\* stage is turned by the next step into the returned failure result that
\* carries the error message, with no file written and no page collected in
\* between, and after the failure result nothing more is executed.
C21_FailureIsAValue ==
    [][/\ (conv # NoValue /\ pc = "idle" /\ conv.stage = "validate"
           /\ ~conv.pdf_exists)
              => (pc' = "raised" /\ exception' = "FileNotFoundError"
                  /\ files' = files)
       /\ (conv # NoValue /\ pc = "raised")
              => /\ conv'.stage = "failed"
                 /\ conv'.error = exception
                 /\ conv'.region_results = conv.region_results
                 /\ files' = files
                 /\ pc' = "idle"
       /\ ConvertFailed => UNCHANGED vars]_vars

\* a missing PDF has been reported as a failure result and nothing was written
C21_Witness ==
    /\ ConvertFailed
    /\ ~conv.pdf_exists
    /\ conv.error = "FileNotFoundError"
    /\ DOMAIN files = {}

\* the pages of the document for which a region detection result was collected
DetectionRuns(n) ==
    {i \in DOMAIN conv.region_results : conv.region_results[i].page_number = n}

\* C29: the OCR stage hands over to the later stages: once the conversion has
\* ended, every page for which the OCR stage persisted a result has its OCR
\* file where load_ocr_data looks for that page number, and region detection
\* ran exactly once for it.
C29_StageHandover ==
    (conv # NoValue /\ conv.stage \in {"failed", "returned"})
        => \A n \in conv.ocr_persisted :
              /\ OcrJsonPath("doc", n) \in DOMAIN files
              /\ Cardinality(DetectionRuns(n)) = 1

====
